---------------------------- MODULE Spec2Model ----------------------------
(***************************************************************************)
(* ABParallel (parallel.h): fork-join versions of the STL algorithms.      *)
(*                                                                         *)
(* A call works on the range [first,last) of a sequence, here the cells    *)
(* 0..n-1 of the array src, and where the algorithm has a second range on  *)
(* the cells 0..n-1 of the array dst.  Positions (iterators) are offsets   *)
(* from first (or from dst); last is the offset n.                         *)
(*                                                                         *)
(* The binary executor is a tree of calls, one per sub-range <<lo,hi>>:    *)
(* a call on more than chunkSize elements hands [lo,mid) to std::async,    *)
(* calls itself on [mid,hi) and then joins the future.  The chunked        *)
(* executor (copy_if, remove, remove_if) starts one std::async per window  *)
(* of chunkSize elements and then moves the windows' results together.     *)
(* Every thread is interleaved with every other at the granularity of      *)
(* "begin of a sequential algorithm" / "end of a sequential algorithm".    *)
(***************************************************************************)
EXTENDS Integers, Sequences, FiniteSets, TLC

\* ------------------------------------------------------------- bounds
\* largest range size n explored
MaxLen == 3
\* elements are drawn from 1..MaxVal
MaxVal == 2

Values == 1 .. MaxVal
MaxChunk == MaxLen + 1

\* ------------------------------------------------------------- operations
VoidOps ==
  {"par_transform", "par_for_each", "par_generate", "par_fill", "par_copy",
   "par_replace", "par_replace_if", "par_sort", "par_sort_func"}
SumOps == {"par_sum", "par_sum_func", "par_count", "par_count_if"}
FindOps == {"par_find", "par_find_if", "par_find_if_not"}
WrapperOps == {"par_all_of", "par_any_of", "par_none_of"}
EqualOps == {"par_equal", "par_equal_func"}
MaxOps == {"par_max_element", "par_max_element_func"}
MinOps == {"par_min_element", "par_min_element_func"}
SortOps == {"par_sort", "par_sort_func"}
BinaryOps ==
  VoidOps \cup SumOps \cup FindOps \cup WrapperOps \cup EqualOps
  \cup MaxOps \cup MinOps
ChunkedOps == {"par_copy_if", "par_remove", "par_remove_if"}
Ops == BinaryOps \cup ChunkedOps
\* the operations that call a function, predicate or comparator of the caller
FunctorOps ==
  {"par_transform", "par_for_each", "par_generate", "par_sum_func",
   "par_count_if", "par_find_if", "par_find_if_not", "par_replace_if",
   "par_sort_func", "par_equal_func", "par_max_element_func",
   "par_min_element_func", "par_copy_if", "par_remove_if"} \cup WrapperOps
\* the operations whose second range dst is used
DstOps == {"par_transform", "par_copy", "par_copy_if"} \cup EqualOps

VARIABLES
  op,         \* the operation called
  n,          \* std::distance(first, last)
  chunkSize,  \* the threshold argument
  throwing,   \* whether the caller's function throws on the element BadValue
  src0,       \* contents of [first,last) at the call
  dst0,       \* contents of [dst,dst+n) at the call
  src,        \* contents of [first,last) now
  dst,        \* contents of [dst,dst+n) now
  frame,      \* one record per call of the binary executor / per chunk task
  call,       \* the top-level call of a chunked operation
  ret,        \* what the top-level call gave its caller
  stat        \* history: what the call has done so far

vars ==
  <<op, n, chunkSize, throwing, src0, dst0, src, dst, frame, call, ret, stat>>

\* ------------------------------------------------------------- the caller's arguments
\* the value searched, counted, filled, replaced or removed; the predicate
\* is "equals value"
value == CHOOSE v \in Values : \A w \in Values : v <= w
newValue == MaxVal + 1
\* the element on which the caller's function throws, when it throws at all
BadValue == MaxVal
Fails(x) == throwing /\ x = BadValue
Pred(x) == x = value
\* the unary function of transform and of sum-with-mapping
Func(x) == x + MaxVal
\* the generator of par_generate: a counter, its k-th call (k = 0, 1, ...)
\* returns k + 1
Gen(k) == k + 1
\* An element is a (key, tag) pair held in one number, tag * TagBase + key:
\* the ordering comparisons look at the key alone.  A plain integer element
\* is its own key, with the tag 0.
TagBase == 2 * MaxVal + 1
Tag(x) == x \div TagBase
Key(x) == x % TagBase
\* operator< and operator<= of the element type, and the comparator
Lt(a, b) == Key(a) < Key(b)
Le(a, b) == Key(a) <= Key(b)
Cmp(a, b) == Key(a) < Key(b)
\* the binary predicate of par_equal
BinPred(a, b) == Key(a) = Key(b)

\* ------------------------------------------------------------- arrays
Arrays(len, S) == [0 .. len - 1 -> S]
Seg(a, lo, hi) == [k \in 1 .. (hi - lo) |-> a[lo + k - 1]]
Put(a, at, seq) ==
  [j \in DOMAIN a |->
     IF at <= j /\ j < at + Len(seq) THEN seq[j - at + 1] ELSE a[j]]
MinOf(S) == CHOOSE x \in S : \A y \in S : x <= y
FirstIn(S, default) == IF S = {} THEN default ELSE MinOf(S)
Cells(name, lo, hi) == {<<name, i>> : i \in lo .. hi - 1}

RECURSIVE SumSeq(_)
SumSeq(q) == IF q = <<>> THEN 0 ELSE q[1] + SumSeq(Tail(q))

\* first position of [lo,hi) whose element makes the caller's function throw
FirstBad(a, lo, hi) == FirstIn({i \in lo .. hi - 1 : Fails(a[i])}, hi)

Out(s, d, v, e) == [s |-> s, d |-> d, val |-> v, exc |-> e]


\* ------------------------------------------------------------- the sequential algorithms
\* Each gives the set of outcomes [s, d, val, exc] of one call on [lo,hi):
\* the two arrays afterwards, the value returned, and whether the call ended
\* by an exception of the caller's function (thrown at the first element
\* that makes it throw; what was written before stays written).

std_transform(s, d, lo, hi, dpos) ==
  LET stop == FirstBad(s, lo, hi)
      img == [k \in 1 .. (stop - lo) |-> Func(s[lo + k - 1])]
  IN  {Out(s, Put(d, dpos, img), 0, stop < hi)}

std_for_each(s, d, lo, hi) ==
  {Out(s, d, 0, FirstBad(s, lo, hi) < hi)}

\* std::generate works on its own copy of the generator: the copy made when
\* the generator was passed by value, in the state the caller handed over
std_generate(s, d, lo, hi) ==
  LET bad == {k \in 0 .. (hi - lo - 1) : Fails(Gen(k))}
      stop == FirstIn(bad, hi - lo)
  IN  {Out(Put(s, lo, [k \in 1 .. stop |-> Gen(k - 1)]), d, 0, stop < hi - lo)}

std_fill(s, d, lo, hi) ==
  {Out(Put(s, lo, [k \in 1 .. (hi - lo) |-> value]), d, 0, FALSE)}

std_accumulate(s, d, lo, hi) ==
  {Out(s, d, SumSeq(Seg(s, lo, hi)), FALSE)}

\* the loop "sum += func(*i)" of par_sum with a function
sum_func_loop(s, d, lo, hi) ==
  LET stop == FirstBad(s, lo, hi)
  IN  {Out(s, d, SumSeq([k \in 1 .. (stop - lo) |-> Func(s[lo + k - 1])]),
           stop < hi)}

std_count(s, d, lo, hi) ==
  {Out(s, d, Cardinality({i \in lo .. hi - 1 : s[i] = value}), FALSE)}

std_count_if(s, d, lo, hi) ==
  LET stop == FirstBad(s, lo, hi)
  IN  {Out(s, d, Cardinality({i \in lo .. stop - 1 : Pred(s[i])}), stop < hi)}

std_copy(s, d, lo, hi, dpos) ==
  {Out(s, Put(d, dpos, Seg(s, lo, hi)), 0, FALSE)}

\* returns the pair (dstFirst, dstLast) the chunk task makes of it
std_copy_if(s, d, lo, hi, dpos) ==
  LET stop == FirstBad(s, lo, hi)
      kept == SelectSeq(Seg(s, lo, stop), Pred)
  IN  {Out(s, Put(d, dpos, kept), <<dpos, dpos + Len(kept)>>, stop < hi)}

std_find(s, d, lo, hi) ==
  {Out(s, d, FirstIn({i \in lo .. hi - 1 : s[i] = value}, hi), FALSE)}

\* want = TRUE: find_if, want = FALSE: find_if_not
std_find_if(s, d, lo, hi, want) ==
  LET hit == FirstIn({i \in lo .. hi - 1 : Pred(s[i]) = want}, hi)
      stop == FirstBad(s, lo, hi)
  IN  {Out(s, d, hit, stop < hi /\ stop <= hit)}

std_replace(s, d, lo, hi) ==
  {Out([j \in DOMAIN s |->
          IF lo <= j /\ j < hi /\ s[j] = value THEN newValue ELSE s[j]],
       d, 0, FALSE)}

std_replace_if(s, d, lo, hi) ==
  LET stop == FirstBad(s, lo, hi)
  IN  {Out([j \in DOMAIN s |->
              IF lo <= j /\ j < stop /\ Pred(s[j]) THEN newValue ELSE s[j]],
           d, 0, stop < hi)}

\* std::remove / std::remove_if: the elements kept are moved to the front of
\* [lo,hi) in their order; the cells from the returned position on are not
\* written.  Returns the pair (first + startId, itFound) of the chunk task.
NotValue(x) == x # value
NotPred(x) == ~Pred(x)
std_remove(s, d, lo, hi) ==
  LET kept == SelectSeq(Seg(s, lo, hi), NotValue)
  IN  {Out(Put(s, lo, kept), d, <<lo, lo + Len(kept)>>, FALSE)}

std_remove_if(s, d, lo, hi) ==
  LET stop == FirstBad(s, lo, hi)
      kept == SelectSeq(Seg(s, lo, stop), NotPred)
  IN  {Out(Put(s, lo, kept), d, <<lo, lo + Len(kept)>>, stop < hi)}

\* std::sort: some arrangement of [lo,hi) in which no element is less than
\* its predecessor (std::sort is not stable).  A comparator that throws
\* leaves the elements in some order.  Every element of a range of two or
\* more elements is compared at least once.
Rearranged(s, lo, hi) ==
  {[j \in DOMAIN s |-> IF lo <= j /\ j < hi THEN s[p[j]] ELSE s[j]] :
     p \in Permutations(lo .. hi - 1)}
IsSorted(a, lo, hi) == \A i \in lo .. hi - 2 : ~Lt(a[i + 1], a[i])
std_sort(s, d, lo, hi) ==
  IF hi - lo <= 1
    THEN {Out(s, d, 0, FALSE)}
    ELSE IF FirstBad(s, lo, hi) < hi
           THEN {Out(a, d, 0, TRUE) : a \in Rearranged(s, lo, hi)}
           ELSE {Out(a, d, 0, FALSE) :
                   a \in {b \in Rearranged(s, lo, hi) : IsSorted(b, lo, hi)}}

\* std::equal: stops at the first pair that differs; byPred = TRUE calls the
\* caller's binary predicate
SamePair(a, b, byPred) == IF byPred THEN BinPred(a, b) ELSE a = b
std_equal(s, d, lo, hi, dpos, byPred) ==
  LET diff == FirstIn({i \in lo .. hi - 1 :
                         ~SamePair(s[i], d[dpos + (i - lo)], byPred)}, hi)
      stop == FirstBad(s, lo, hi)
  IN  {Out(s, d, diff = hi, stop < hi /\ stop <= diff)}

\* std::max_element: keeps the first largest, replaced when *largest < *it
RECURSIVE MaxScan(_, _, _, _)
MaxScan(s, i, hi, largest) ==
  IF i >= hi THEN largest
  ELSE MaxScan(s, i + 1, hi, IF Lt(s[largest], s[i]) THEN i ELSE largest)
std_max_element(s, d, lo, hi) ==
  {Out(s, d, IF lo = hi THEN hi ELSE MaxScan(s, lo + 1, hi, lo),
       hi - lo >= 2 /\ FirstBad(s, lo, hi) < hi)}

\* std::min_element: keeps the first smallest, replaced when *it < *smallest
RECURSIVE MinScan(_, _, _, _)
MinScan(s, i, hi, smallest) ==
  IF i >= hi THEN smallest
  ELSE MinScan(s, i + 1, hi, IF Lt(s[i], s[smallest]) THEN i ELSE smallest)
std_min_element(s, d, lo, hi) ==
  {Out(s, d, IF lo = hi THEN hi ELSE MinScan(s, lo + 1, hi, lo),
       hi - lo >= 2 /\ FirstBad(s, lo, hi) < hi)}

\* ------------------------------------------------------------- leaves, joins, combines
\* the sequential algorithm a call of operation o runs on [lo,hi) once the
\* range is not larger than chunkSize (binary executor), or that a chunk
\* task runs on its window (chunked executor)
Leaf(o, s, d, lo, hi, dpos) ==
  CASE o = "par_transform" -> std_transform(s, d, lo, hi, dpos)
    [] o = "par_for_each" -> std_for_each(s, d, lo, hi)
    [] o = "par_generate" -> std_generate(s, d, lo, hi)
    [] o = "par_fill" -> std_fill(s, d, lo, hi)
    [] o = "par_sum" -> std_accumulate(s, d, lo, hi)
    [] o = "par_sum_func" -> sum_func_loop(s, d, lo, hi)
    [] o = "par_count" -> std_count(s, d, lo, hi)
    [] o = "par_count_if" -> std_count_if(s, d, lo, hi)
    [] o = "par_copy" -> std_copy(s, d, lo, hi, dpos)
    [] o = "par_copy_if" -> std_copy_if(s, d, lo, hi, dpos)
    [] o = "par_find" -> std_find(s, d, lo, hi)
    [] o \in {"par_find_if", "par_any_of", "par_none_of"} ->
         std_find_if(s, d, lo, hi, TRUE)
    [] o \in {"par_find_if_not", "par_all_of"} ->
         std_find_if(s, d, lo, hi, FALSE)
    [] o = "par_replace" -> std_replace(s, d, lo, hi)
    [] o = "par_replace_if" -> std_replace_if(s, d, lo, hi)
    [] o = "par_remove" -> std_remove(s, d, lo, hi)
    [] o = "par_remove_if" -> std_remove_if(s, d, lo, hi)
    [] o \in SortOps -> std_sort(s, d, lo, hi)
    [] o = "par_equal" -> std_equal(s, d, lo, hi, dpos, FALSE)
    [] o = "par_equal_func" -> std_equal(s, d, lo, hi, dpos, TRUE)
    [] o \in MaxOps -> std_max_element(s, d, lo, hi)
    [] o \in MinOps -> std_min_element(s, d, lo, hi)

\* the cells a sequential algorithm may read and may write: the iterators
\* it is given
LeafReads(o, lo, hi, dpos) ==
  IF o \in {"par_generate", "par_fill"} THEN {}
  ELSE Cells("src", lo, hi)
       \cup (IF o \in EqualOps THEN Cells("dst", dpos, dpos + (hi - lo)) ELSE {})
LeafWrites(o, lo, hi, dpos) ==
  IF o \in {"par_transform", "par_copy", "par_copy_if"}
    THEN Cells("dst", dpos, dpos + (hi - lo))
  ELSE IF o \in {"par_generate", "par_fill", "par_replace", "par_replace_if",
                 "par_remove", "par_remove_if"} \cup SortOps
    THEN Cells("src", lo, hi)
  ELSE {}

\* future.get() rethrows what the task threw; future.wait() does not
JoinRethrows(o) == o \notin VoidOps

\* (mutant) the value of the future is dropped
sum_combine_NoFuture(acc1, acc2) == acc1

\* "return acc1+acc2" / "return count1+count2"
sum_combine(acc1, acc2) == acc1 + acc2

\* (mutant) the match of the second part is preferred
find_combine_SecondFirst(itFoundByFirstPart, itFoundBySecondPart, srcMiddle, last) ==
  IF itFoundBySecondPart # last THEN itFoundBySecondPart
  ELSE IF itFoundByFirstPart # srcMiddle THEN itFoundByFirstPart
  ELSE last

\* the three returns that end par_find, par_find_if and par_find_if_not
find_combine(itFoundByFirstPart, itFoundBySecondPart, srcMiddle, last) ==
  IF itFoundByFirstPart # srcMiddle THEN itFoundByFirstPart
  ELSE IF itFoundByFirstPart = srcMiddle /\ itFoundBySecondPart # last
    THEN itFoundBySecondPart
  ELSE last

\* the lambda of the task of par_equal is declared "-> valueType": the bool
\* that the call on the left half returns is converted to an element
as_valueType(b) == IF b THEN 1 ELSE 0

\* (mutant) the result of the task is not looked at
equal_combine_NoFuture(equal1, equal2) == equal1

\* "return equal1 && equal2", equal2 being the element got from the future
equal_combine(equal1, equal2) == equal1 /\ equal2 # 0

\* "(*max2<*max1)?max1:max2" and "func(*max2,*max1)?max1:max2"
max_combine(s, max1, max2) == IF Lt(s[max2], s[max1]) THEN max1 ELSE max2
max_combine_func(s, max1, max2) == IF Cmp(s[max2], s[max1]) THEN max1 ELSE max2

\* (mutant) the halves are compared with < in place of <=
min_combine_Strict(s, min1, min2) == IF Lt(s[min2], s[min1]) THEN min2 ELSE min1

\* "(*min2<=*min1)?min2:min1" and "func(*min2,*min1)?min2:min1"
min_combine(s, min1, min2) == IF Le(s[min2], s[min1]) THEN min2 ELSE min1
min_combine_func(s, min1, min2) == IF Cmp(s[min2], s[min1]) THEN min2 ELSE min1

\* what a call returns after the join: v1 from its own recursion on
\* [mid,hi), v2 from the future of [lo,mid); [val, exc]
Combine(o, s, v1, v2, mid, hi) ==
  CASE o \in SumOps -> [val |-> sum_combine(v1, v2), exc |-> FALSE]
    [] o \in FindOps \cup WrapperOps ->
         [val |-> find_combine(v2, v1, mid, hi), exc |-> FALSE]
    [] o \in EqualOps ->
         [val |-> equal_combine(v1, as_valueType(v2)), exc |-> FALSE]
    [] o = "par_max_element" -> [val |-> max_combine(s, v1, v2), exc |-> FALSE]
    [] o = "par_max_element_func" ->
         IF Fails(s[v2]) \/ Fails(s[v1]) THEN [val |-> 0, exc |-> TRUE]
         ELSE [val |-> max_combine_func(s, v1, v2), exc |-> FALSE]
    [] o = "par_min_element" -> [val |-> min_combine(s, v1, v2), exc |-> FALSE]
    [] o = "par_min_element_func" ->
         IF Fails(s[v2]) \/ Fails(s[v1]) THEN [val |-> 0, exc |-> TRUE]
         ELSE [val |-> min_combine_func(s, v1, v2), exc |-> FALSE]
    [] OTHER -> [val |-> 0, exc |-> FALSE]

\* ------------------------------------------------------------- par_merge
\* (mutant) the comparison is the wrong way round
merge_takes_left_Swapped(byFunc, l, r) == IF byFunc THEN Cmp(r, l) ELSE Le(r, l)

\* "*helperLeft <= *helperRight" (natural order) or
\* "func(*helperLeft, *helperRight)" (comparator)
merge_takes_left(byFunc, l, r) == IF byFunc THEN Cmp(l, r) ELSE Le(l, r)

\* the two while loops; arrayLeft and arrayRight are the copies of the two
\* halves, hl and hr the positions of helperLeft and helperRight in them
RECURSIVE merge_loop(_, _, _, _, _, _, _)
merge_loop(a, arrayLeft, arrayRight, hl, hr, current, byFunc) ==
  IF hl <= Len(arrayLeft) /\ hr <= Len(arrayRight)
    THEN IF byFunc /\ (Fails(arrayLeft[hl]) \/ Fails(arrayRight[hr]))
           THEN [s |-> a, exc |-> TRUE]
         ELSE IF merge_takes_left(byFunc, arrayLeft[hl], arrayRight[hr])
           THEN merge_loop([a EXCEPT ![current] = arrayLeft[hl]],
                           arrayLeft, arrayRight, hl + 1, hr, current + 1, byFunc)
           ELSE merge_loop([a EXCEPT ![current] = arrayRight[hr]],
                           arrayLeft, arrayRight, hl, hr + 1, current + 1, byFunc)
  ELSE IF hl <= Len(arrayLeft)
    THEN merge_loop([a EXCEPT ![current] = arrayLeft[hl]],
                    arrayLeft, arrayRight, hl + 1, hr, current + 1, byFunc)
  ELSE [s |-> a, exc |-> FALSE]

par_merge(s, first, middle, last, byFunc) ==
  merge_loop(s, Seg(s, first, middle), Seg(s, middle, last), 1, 1, first, byFunc)

\* ------------------------------------------------------------- calls and tasks
\* a call of the binary executor, or a chunk task, is named by its range
\* A comparator can only throw in a sort of two or more elements, so a
\* dispatched half of a sort can only fail in a range of four or more: the
\* specification of the sorts alone (SpecSort) goes one element further
\* than the specification of all the operations.
MaxSortLen == MaxLen + 1
Nodes == {nd \in (0 .. MaxSortLen) \X (0 .. MaxSortLen) : nd[1] <= nd[2]}
Root == <<0, n>>
Size(nd) == nd[2] - nd[1]
\* (mutant) the left half is the first element alone
srcMiddle_AfterFirst(nd) == nd[1] + 1

\* (mutant) the left half gets the odd element
srcMiddle_RoundedUp(nd) == nd[1] + (Size(nd) + 1) \div 2

\* "std::next(first, n / 2)"
srcMiddle(nd) == nd[1] + Size(nd) \div 2
\* (mutant) the right half is given the destination of the left half
dstMiddle_NoOffset(dpos, nd) == dpos
\* (mutant) the middle of the destination is rounded up
dstMiddle_RoundedUp(dpos, nd) == dpos + (Size(nd) + 1) \div 2
\* "std::next(dst, n / 2)"
dstMiddle(dpos, nd) == dpos + Size(nd) \div 2
\* A call on a half of the range is named by the half.  With chunkSize 0 a
\* half can be empty, or the whole range of the caller: such a call is told
\* from the other calls on its range by how many of them it is nested in.
Level(nd) == IF Len(nd) = 3 THEN nd[3] ELSE 0
Callee(nd, lo, hi) ==
  IF lo < hi /\ hi - lo < Size(nd) THEN <<lo, hi>>
  ELSE <<lo, hi, Level(nd) + 1>>
LeftOf(nd) == Callee(nd, nd[1], srcMiddle(nd))
RightOf(nd) == Callee(nd, srcMiddle(nd), nd[2])
\* (mutant) a range of exactly chunkSize elements is split
IsLeaf_Strict(nd) == Size(nd) < chunkSize
\* (mutant) a range of one element is not split whatever chunkSize is
IsLeaf_OneElement(nd) == Size(nd) <= chunkSize \/ Size(nd) <= 1

\* "if (n <= chunkSize)": the call runs the sequential algorithm
IsLeaf(nd) == Size(nd) <= chunkSize

\* pc: "idle"   not called
\*     "ready"  called (or dispatched by std::async) and not yet running
\*     "leaf"   inside the sequential algorithm
\*     "forked" left half dispatched, recursing on the right half
\*     "merge"  inside par_merge
\*     "done"   returned: val is the value, exc says it ended by an exception
\* dpos: the dst argument; task: the call is the body of a std::async;
\* onCaller: runs on the thread of the top-level caller.
\* The variable frame holds the calls made so far.
IdleFrame ==
  [pc |-> "idle", dpos |-> 0, val |-> 0, exc |-> FALSE, task |-> FALSE,
   onCaller |-> FALSE]
ReadyFrame(dpos, task, onCaller) ==
  [IdleFrame EXCEPT !.pc = "ready", !.dpos = dpos, !.task = task,
                    !.onCaller = onCaller]
DoneFrame(f, v, e) ==
  [f EXCEPT !.pc = "done", !.val = v, !.exc = e]
\* the record of the call on nd, and the calls with that of nd replaced
F(nd) == IF nd \in DOMAIN frame THEN frame[nd] ELSE IdleFrame
Set(fr, nd, rec) ==
  [x \in DOMAIN fr \cup {nd} |-> IF x = nd THEN rec ELSE fr[x]]

Running == [kind |-> "running", val |-> 0]

\* the call is made: nothing has run yet
Called ==
  /\ src = src0
  /\ dst = dst0
  /\ frame = [nd \in (IF op \in BinaryOps THEN {Root} ELSE {}) |->
                ReadyFrame(0, FALSE, TRUE)]
  /\ call = [pc |-> IF op \in ChunkedOps THEN "dispatch" ELSE "binary",
             startId |-> 0, futures |-> <<>>, it |-> 0, dstLast |-> 0,
             chunkRange |-> <<0, 0>>]
  /\ ret = Running
  /\ stat = [async |-> 0, seq |-> 0, seqOnCaller |-> 0, emptyFront |-> FALSE,
             joins |-> <<>>]

\* a call of one of the operations ops on a range of at most maxLen elements
InitWith(ops, maxLen) ==
  /\ op \in ops
  /\ n \in 0 .. maxLen
  /\ chunkSize \in 1 .. MaxChunk
  /\ throwing \in (IF op \in FunctorOps THEN BOOLEAN ELSE {FALSE})
  /\ src0 \in Arrays(n, IF op \in EqualOps THEN {value, BadValue} ELSE Values)
  /\ dst0 \in (IF op \in EqualOps
                 THEN {[i \in 0 .. n - 1 |-> IF i \in D THEN 0 ELSE src0[i]] :
                         D \in SUBSET (0 .. n - 1)}
                 ELSE {[i \in 0 .. n - 1 |-> 0]})
  /\ Called

Init == InitWith(Ops, MaxLen)
InitSort == InitWith(SortOps, MaxSortLen)

\* a call of par_sort on elements with keys and tags: the tag of an element
\* is its place in the range at the call, counted from 1
InitStable ==
  /\ op \in SortOps
  /\ n \in 0 .. MaxSortLen
  /\ chunkSize \in 1 .. MaxChunk
  /\ throwing = FALSE
  /\ src0 \in {[i \in 0 .. n - 1 |-> (i + 1) * TagBase + keys[i]] :
                 keys \in Arrays(n, Values)}
  /\ dst0 = [i \in 0 .. n - 1 |-> 0]
  /\ Called


Inputs == <<op, n, chunkSize, throwing, src0, dst0>>

\* ------------------------------------------------------------- binary executor
\* "if (n <= chunkSize)" is false: std::async of the left half, then the
\* recursive call on the right half
Split(nd) ==
  /\ op \in BinaryOps
  /\ F(nd).pc = "ready"
  /\ ~IsLeaf(nd)
  /\ frame' =
       Set(Set(Set(frame, nd, [frame[nd] EXCEPT !.pc = "forked"]),
               LeftOf(nd), ReadyFrame(frame[nd].dpos, TRUE, FALSE)),
           RightOf(nd),
           ReadyFrame(dstMiddle(frame[nd].dpos, nd), FALSE, frame[nd].onCaller))
  /\ stat' = [stat EXCEPT !.async = @ + 1]
  /\ UNCHANGED <<Inputs, src, dst, call, ret>>

\* the sequential algorithm starts: of a call with n <= chunkSize, or of a
\* chunk task
LeafBegin(nd) ==
  /\ F(nd).pc = "ready"
  /\ op \in BinaryOps => IsLeaf(nd)
  /\ frame' = [frame EXCEPT ![nd].pc = "leaf"]
  /\ stat' = [stat EXCEPT
       !.seq = @ + 1,
       !.seqOnCaller = @ + (IF frame[nd].onCaller THEN 1 ELSE 0)]
  /\ UNCHANGED <<Inputs, src, dst, call, ret>>

\* the sequential algorithm ends, and with it the call or the chunk task
LeafEnd(nd) ==
  /\ F(nd).pc = "leaf"
  /\ \E out \in Leaf(op, src, dst, nd[1], nd[2], frame[nd].dpos) :
       /\ src' = out.s
       /\ dst' = out.d
       /\ frame' = [frame EXCEPT ![nd] = DoneFrame(@, out.val, out.exc)]
  /\ UNCHANGED <<Inputs, call, ret, stat>>

\* how many times the future of the task on nd has been waited for
\* (stat.joins: by future.wait(), future.get() or the destructor of the
\* future; afterRight: the recursive call on the right half had returned)
JoinsOf(nd) == IF nd \in DOMAIN stat.joins THEN stat.joins[nd].count ELSE 0

\* (mutant) the future is waited for without the call on the right half
\* having returned
JoinReady_BeforeRight(nd) == F(LeftOf(nd)).pc = "done"

\* (mutant) the call goes on without waiting for its task
JoinReady_NoWait(nd) == F(RightOf(nd)).pc = "done"

\* the statement after the recursive call on [srcMiddle,last), a wait for
\* the future, can end: the call has returned and the task has ended
JoinReady(nd) ==
  /\ F(RightOf(nd)).pc = "done"
  /\ F(LeftOf(nd)).pc = "done"

\* the recursive call on the right half has returned and the future of the
\* left half is ready.  An exception of the right half unwinds the call (the
\* destructor of the future waits for the task); future.get() rethrows the
\* exception of the left half, future.wait() drops it.  par_sort goes on to
\* par_merge, the others return their combined value.
Join(nd) ==
  /\ F(nd).pc = "forked"
  /\ JoinReady(nd)
  /\ LET right == frame[RightOf(nd)]
         left == frame[LeftOf(nd)]
         comb == Combine(op, src, right.val, left.val, srcMiddle(nd), nd[2])
     IN  frame' = [frame EXCEPT ![nd] =
           IF right.exc \/ (left.exc /\ JoinRethrows(op))
             THEN DoneFrame(@, 0, TRUE)
           ELSE IF op \in SortOps
             THEN [@ EXCEPT !.pc = "merge"]
           ELSE DoneFrame(@, comb.val, comb.exc)]
  /\ stat' = [stat EXCEPT !.joins =
       Set(@, LeftOf(nd),
           [count |-> JoinsOf(LeftOf(nd)) + 1,
            afterRight |-> F(RightOf(nd)).pc = "done"])]
  /\ UNCHANGED <<Inputs, src, dst, call, ret>>

\* par_merge(first, srcMiddle, last) ends, and with it the call of par_sort
MergeEnd(nd) ==
  /\ F(nd).pc = "merge"
  /\ LET m == par_merge(src, nd[1], srcMiddle(nd), nd[2], op = "par_sort_func")
     IN  /\ src' = m.s
         /\ frame' = [frame EXCEPT ![nd] = DoneFrame(@, 0, m.exc)]
  /\ UNCHANGED <<Inputs, dst, call, ret, stat>>

\* (mutant) par_none_of compares as par_any_of does
Returned_NoneAsAny(o, v) ==
  CASE o \in {"par_any_of", "par_none_of"} -> [kind |-> "value", val |-> (v # n)]
    [] o = "par_all_of" -> [kind |-> "value", val |-> (v = n)]
    [] o \in VoidOps -> [kind |-> "void", val |-> 0]
    [] OTHER -> [kind |-> "value", val |-> v]

\* what the wrappers make of the position found
Returned(o, v) ==
  CASE o = "par_all_of" -> [kind |-> "value", val |-> (v = n)]
    [] o = "par_any_of" -> [kind |-> "value", val |-> (v # n)]
    [] o = "par_none_of" -> [kind |-> "value", val |-> (v = n)]
    [] o \in VoidOps -> [kind |-> "void", val |-> 0]
    [] OTHER -> [kind |-> "value", val |-> v]

\* the top-level call of a binary operation returns to its caller
Return ==
  /\ op \in BinaryOps
  /\ ret.kind = "running"
  /\ F(Root).pc = "done"
  /\ ret' = IF frame[Root].exc THEN [kind |-> "threw", val |-> 0]
            ELSE Returned(op, frame[Root].val)
  /\ UNCHANGED <<Inputs, src, dst, frame, call, stat>>

\* ------------------------------------------------------------- chunked executor
\* the array the chunk tasks write their results to, and the stitching
\* moves them in: the destination of par_copy_if, the range itself for
\* par_remove and par_remove_if
OutArray == IF op = "par_copy_if" THEN "dst" ELSE "src"

\* (mutant) the last window is as wide as the others
stopId_NoMin(startId) == startId + chunkSize

\* "std::min(startId + chunkSize, n)"
stopId(startId) == IF startId + chunkSize < n THEN startId + chunkSize ELSE n

\* (mutant) every task of par_copy_if copies to the start of the destination
dstFirst_NoOffset(startId) == 0

\* "auto dstFirst = dst + startId" of par_copy_if; the other two operations
\* work in [first + startId, first + stopId)
dstFirst(startId) == startId

\* one turn of "for (size_t startId = 0; startId < n; startId += chunkSize)":
\* std::async of the task of the window [startId, stopId)
Dispatch ==
  /\ call.pc = "dispatch"
  /\ call.startId < n
  /\ LET nd == <<call.startId, stopId(call.startId)>>
     IN  /\ frame' = Set(frame, nd,
                          ReadyFrame(dstFirst(call.startId), TRUE, FALSE))
         /\ call' = [call EXCEPT !.futures = Append(@, nd),
                                 !.startId = @ + chunkSize]
  /\ stat' = [stat EXCEPT !.async = @ + 1]
  /\ UNCHANGED <<Inputs, src, dst, ret>>

\* "futures.front().get().second" on a vector that holds no future: the
\* behaviour is undefined.  The call may crash, throw, not return, or return
\* any position.
UndefinedOutcomes ==
  {[kind |-> k, val |-> 0] : k \in {"crash", "threw", "hang"}}
  \cup {[kind |-> "value", val |-> v] : v \in 0 .. MaxLen}
FrontEmpty ==
  /\ call.pc = "dispatch"
  /\ ~(call.startId < n)
  /\ call.futures = <<>>
  /\ ret' \in UndefinedOutcomes
  /\ call' = [call EXCEPT !.pc = "done"]
  /\ stat' = [stat EXCEPT !.emptyFront = TRUE]
  /\ UNCHANGED <<Inputs, src, dst, frame>>

\* (mutant) only the get() of the first future waits for its task
get_returns_NoWait(k) == k > 1 \/ frame[call.futures[k]].pc = "done"

\* get() on the k-th future of the vector returns, or throws, when the task
\* of the future has ended
get_returns(k) == frame[call.futures[k]].pc = "done"

\* "auto dstLast = futures.front().get().second": waits for the first task;
\* get() rethrows its exception
FrontGet ==
  /\ call.pc = "dispatch"
  /\ ~(call.startId < n)
  /\ call.futures # <<>>
  /\ get_returns(1)
  /\ call' = IF frame[call.futures[1]].exc
               THEN [call EXCEPT !.pc = "unwind"]
               ELSE [call EXCEPT !.pc = "stitch", !.it = 2,
                                 !.dstLast = frame[call.futures[1]].val[2]]
  /\ UNCHANGED <<Inputs, src, dst, frame, ret, stat>>

\* "auto chunkRange = it->get()" followed by the start of
\* std::move(chunkRange.first, chunkRange.second, dstLast)
StitchGet ==
  /\ call.pc = "stitch"
  /\ call.it <= Len(call.futures)
  /\ get_returns(call.it)
  /\ LET f == frame[call.futures[call.it]]
     IN  call' = IF f.exc
                   THEN [call EXCEPT !.pc = "unwind"]
                   ELSE [call EXCEPT !.pc = "move", !.chunkRange = f.val]
  /\ UNCHANGED <<Inputs, src, dst, frame, ret, stat>>

\* (mutant) the window is left where its task put it
std_move_Nothing(a, first, last, d_first) == a

\* std::move(first, last, d_first): copies forward, one element at a time
RECURSIVE std_move(_, _, _, _)
std_move(a, first, last, d_first) ==
  IF first >= last THEN a
  ELSE std_move([a EXCEPT ![d_first] = a[first]], first + 1, last, d_first + 1)

\* (mutant) the cursor goes to the end of the window moved
moved_end_OfSource(first, last, d_first) == last

\* the position std::move returns: one past the last element written
moved_end(first, last, d_first) == d_first + (last - first)

\* the std::move ends: "dstLast = std::move(...)" and "++it"
MoveEnd ==
  /\ call.pc = "move"
  /\ LET first == call.chunkRange[1]
         last == call.chunkRange[2]
     IN  /\ IF OutArray = "dst"
              THEN /\ dst' = std_move(dst, first, last, call.dstLast)
                   /\ src' = src
              ELSE /\ src' = std_move(src, first, last, call.dstLast)
                   /\ dst' = dst
         /\ call' = [call EXCEPT !.pc = "stitch", !.it = @ + 1,
                                 !.dstLast = moved_end(first, last, @)]
  /\ UNCHANGED <<Inputs, frame, ret, stat>>

\* "it != futures.end()" is false: "return dstLast"
StitchReturn ==
  /\ call.pc = "stitch"
  /\ ~(call.it <= Len(call.futures))
  /\ ret' = [kind |-> "value", val |-> call.dstLast]
  /\ call' = [call EXCEPT !.pc = "done"]
  /\ UNCHANGED <<Inputs, src, dst, frame, stat>>

\* an exception leaves the call: the vector of futures is destroyed, and the
\* destructor of each future waits for its task
Unwind ==
  /\ call.pc = "unwind"
  /\ \A k \in 1 .. Len(call.futures) : frame[call.futures[k]].pc = "done"
  /\ ret' = [kind |-> "threw", val |-> 0]
  /\ call' = [call EXCEPT !.pc = "done"]
  /\ UNCHANGED <<Inputs, src, dst, frame, stat>>

\* ------------------------------------------------------------- cells in use
\* the cells that the sequential step in progress in a call or chunk task
\* (a sequential algorithm, or par_merge) may read and may write
Reads(nd) ==
  CASE F(nd).pc = "leaf" -> LeafReads(op, nd[1], nd[2], F(nd).dpos)
    [] F(nd).pc = "merge" -> Cells("src", nd[1], nd[2])
    [] OTHER -> {}
Writes(nd) ==
  CASE F(nd).pc = "leaf" -> LeafWrites(op, nd[1], nd[2], F(nd).dpos)
    [] F(nd).pc = "merge" -> Cells("src", nd[1], nd[2])
    [] OTHER -> {}
\* the cells the std::move in progress in the stitching loop reads and writes
MoveReads ==
  IF call.pc = "move"
    THEN Cells(OutArray, call.chunkRange[1], call.chunkRange[2])
    ELSE {}
MoveWrites ==
  IF call.pc = "move"
    THEN Cells(OutArray, call.dstLast,
               call.dstLast + (call.chunkRange[2] - call.chunkRange[1]))
    ELSE {}

\* ------------------------------------------------------------- specification
NextBinary ==
  \/ \E nd \in Nodes : Split(nd)
  \/ \E nd \in Nodes : LeafBegin(nd)
  \/ \E nd \in Nodes : LeafEnd(nd)
  \/ \E nd \in Nodes : Join(nd)
  \/ \E nd \in Nodes : MergeEnd(nd)
  \/ Return

Next ==
  \/ NextBinary
  \/ Dispatch
  \/ FrontEmpty
  \/ FrontGet
  \/ StitchGet
  \/ MoveEnd
  \/ StitchReturn
  \/ Unwind

Spec == Init /\ [][Next]_vars

\* par_sort alone (both overloads), on ranges one element longer
SpecSort == InitSort /\ [][NextBinary]_vars

\* par_sort alone, on elements with keys and tags
SpecStable == InitStable /\ [][NextBinary]_vars

\* --------------------------------------------- par_sum on longer ranges
\* The shape of the recursion depends on n and chunkSize alone: par_sum on
\* ranges of equal elements shows it on ranges five elements longer.
MaxDepthLen == MaxLen + 5
DepthNodes == {nd \in (0 .. MaxDepthLen) \X (0 .. MaxDepthLen) : nd[1] <= nd[2]}

InitDepth ==
  /\ op = "par_sum"
  /\ n \in 0 .. MaxDepthLen
  /\ chunkSize \in 1 .. MaxChunk
  /\ throwing = FALSE
  /\ src0 = [i \in 0 .. n - 1 |-> value]
  /\ dst0 = [i \in 0 .. n - 1 |-> 0]
  /\ Called

NextDepth ==
  \/ \E nd \in DepthNodes : Split(nd)
  \/ \E nd \in DepthNodes : LeafBegin(nd)
  \/ \E nd \in DepthNodes : LeafEnd(nd)
  \/ \E nd \in DepthNodes : Join(nd)
  \/ Return

SpecDepth == InitDepth /\ [][NextDepth]_vars

\* --------------------------- par_max_element and par_min_element on longer ranges
\* the natural-order searches for an extremum, on ranges three elements
\* longer, of equal elements or of two alternating values
MaxLeafLen == MaxLen + 3

InitLeaves ==
  /\ op \in {"par_max_element", "par_min_element"}
  /\ n \in 0 .. MaxLeafLen
  /\ chunkSize \in 1 .. MaxChunk
  /\ throwing = FALSE
  /\ src0 \in {[i \in 0 .. n - 1 |-> value],
               [i \in 0 .. n - 1 |-> IF i % 2 = 0 THEN value ELSE MaxVal]}
  /\ dst0 = [i \in 0 .. n - 1 |-> 0]
  /\ Called

SpecLeaves == InitLeaves /\ [][NextDepth]_vars

\* ------------------------------------------------------- chunkSize 0
\* chunkSize is a size_t of the caller: nothing keeps it from being 0.  The
\* calls nested in calls on their own range are followed MaxNest deep at the
\* first element of the range, and one deep at the other elements, for
\* par_find and par_for_each on ranges of equal elements.
MaxNest == MaxLen
MaxZeroLen == MaxLen - 1
ZeroNodes ==
  {nd \in (0 .. MaxZeroLen) \X (0 .. MaxZeroLen) : nd[1] <= nd[2]}
  \cup {nd \in (0 .. MaxZeroLen) \X (0 .. MaxZeroLen) \X (1 .. MaxNest) :
          /\ nd[1] <= nd[2]
          /\ nd[2] <= nd[1] + 1
          /\ nd[1] > 0 => nd[3] = 1}

InitZero ==
  /\ op \in {"par_find", "par_for_each"}
  /\ n \in 0 .. MaxZeroLen
  /\ chunkSize \in 0 .. 1
  /\ throwing \in (IF op \in FunctorOps THEN BOOLEAN ELSE {FALSE})
  /\ src0 \in {[i \in 0 .. n - 1 |-> v] : v \in {value, BadValue}}
  /\ dst0 = [i \in 0 .. n - 1 |-> 0]
  /\ Called

NextZero ==
  \/ \E nd \in ZeroNodes : Split(nd)
  \/ \E nd \in ZeroNodes : LeafBegin(nd)
  \/ \E nd \in ZeroNodes : LeafEnd(nd)
  \/ \E nd \in ZeroNodes : Join(nd)
  \/ Return

SpecZero == InitZero /\ [][NextZero]_vars

\* --------------------------------------------------- par_merge called alone
\* par_merge is a function of the namespace of its own: a caller can hand it
\* any range [first,last) and any middle in it
MergeOps == {"par_merge", "par_merge_func"}

\* a call of par_merge on two adjacent halves, each ordered, of elements
\* with keys and tags; the halves may be empty, and the range may lie inside
\* a longer one
InitMerge ==
  /\ op \in MergeOps
  /\ n \in 0 .. MaxSortLen
  /\ chunkSize = 1
  /\ throwing = FALSE
  /\ src0 \in {[i \in 0 .. n - 1 |-> (i + 1) * TagBase + keys[i]] :
                 keys \in Arrays(n, Values)}
  /\ dst0 = [i \in 0 .. n - 1 |-> 0]
  /\ src = src0
  /\ dst = dst0
  /\ frame = [nd \in {} |-> IdleFrame]
  /\ call \in {[pc |-> "merge", first |-> f, middle |-> m, last |-> l] :
                 f \in 0 .. n, m \in 0 .. n, l \in 0 .. n}
  /\ call.first <= call.middle
  /\ call.middle <= call.last
  /\ IsSorted(src0, call.first, call.middle)
  /\ IsSorted(src0, call.middle, call.last)
  /\ ret = Running
  /\ stat = [async |-> 0, seq |-> 0, seqOnCaller |-> 0, emptyFront |-> FALSE,
             joins |-> <<>>]

\* the whole of par_merge: the two copies, the two loops, the return
MergeCall ==
  /\ call.pc = "merge"
  /\ LET m == par_merge(src, call.first, call.middle, call.last,
                        op = "par_merge_func")
     IN  /\ src' = m.s
         /\ ret' = IF m.exc THEN [kind |-> "threw", val |-> 0]
                   ELSE [kind |-> "void", val |-> 0]
  /\ call' = [call EXCEPT !.pc = "done"]
  /\ UNCHANGED <<Inputs, dst, frame, stat>>

SpecMerge == InitMerge /\ [][MergeCall]_vars

\* ------------------------------------------------------------- one schedule
\* The same calls with every dispatched task run to its end as soon as it is
\* dispatched: the left half before the right half, the windows in their
\* order.  Each operator gives the set of outcomes of that schedule.

\* the call of the binary executor on nd, from the arrays s and d
RECURSIVE CallInOrder(_, _, _, _)
JoinInOrder(nd, left, right) ==
  IF right.exc \/ (left.exc /\ JoinRethrows(op))
    THEN Out(right.s, right.d, 0, TRUE)
  ELSE IF op \in SortOps
    THEN LET m == par_merge(right.s, nd[1], srcMiddle(nd), nd[2],
                            op = "par_sort_func")
         IN  Out(m.s, right.d, 0, m.exc)
  ELSE LET comb == Combine(op, right.s, right.val, left.val,
                           srcMiddle(nd), nd[2])
       IN  Out(right.s, right.d, comb.val, comb.exc)
CallInOrder(nd, s, d, dpos) ==
  IF IsLeaf(nd)
    THEN Leaf(op, s, d, nd[1], nd[2], dpos)
    ELSE UNION {{JoinInOrder(nd, left, right) :
                   right \in CallInOrder(RightOf(nd), left.s, left.d,
                                         dstMiddle(dpos, nd))} :
                left \in CallInOrder(LeftOf(nd), s, d, dpos)}

\* the windows of the chunked executor, in their order
Windows ==
  [k \in 1 .. ((n + chunkSize - 1) \div chunkSize) |->
     <<(k - 1) * chunkSize, stopId((k - 1) * chunkSize)>>]
\* the chunk tasks from window k on; outs collects what each gave
RECURSIVE TasksInOrder(_, _, _, _)
TasksInOrder(k, s, d, outs) ==
  IF k > Len(Windows)
    THEN {[s |-> s, d |-> d, outs |-> outs]}
    ELSE UNION {TasksInOrder(k + 1, out.s, out.d, Append(outs, out)) :
                  out \in Leaf(op, s, d, Windows[k][1], Windows[k][2],
                               Windows[k][1])}
\* the stitching loop from the future k on
RECURSIVE StitchInOrder(_, _, _, _, _)
StitchInOrder(k, s, d, outs, dstLast) ==
  IF k > Len(outs)
    THEN [ret |-> [kind |-> "value", val |-> dstLast], s |-> s, d |-> d]
  ELSE IF outs[k].exc
    THEN [ret |-> [kind |-> "threw", val |-> 0], s |-> s, d |-> d]
  ELSE LET first == outs[k].val[1]
           last == outs[k].val[2]
       IN  IF OutArray = "dst"
             THEN StitchInOrder(k + 1, s, std_move(d, first, last, dstLast),
                                outs, moved_end(first, last, dstLast))
             ELSE StitchInOrder(k + 1, std_move(s, first, last, dstLast), d,
                                outs, moved_end(first, last, dstLast))
ChunkedInOrder ==
  IF n = 0
    THEN {[ret |-> u, s |-> src0, d |-> dst0] : u \in UndefinedOutcomes}
    ELSE {IF t.outs[1].exc
            THEN [ret |-> [kind |-> "threw", val |-> 0], s |-> t.s, d |-> t.d]
            ELSE StitchInOrder(2, t.s, t.d, t.outs, t.outs[1].val[2]) :
          t \in TasksInOrder(1, src0, dst0, <<>>)}

\* what the top-level call gives its caller and leaves in the two ranges
ResultsInOrder ==
  IF op \in ChunkedOps
    THEN ChunkedInOrder
    ELSE {[ret |-> IF out.exc THEN [kind |-> "threw", val |-> 0]
                   ELSE Returned(op, out.val),
           s |-> out.s, d |-> out.d] :
          out \in CallInOrder(Root, src0, dst0, 0)}

\* ------------------------------------------------------------- properties
\* the search condition of the find family on an element
Sought(o, x) ==
  CASE o = "par_find" -> x = value
    [] o = "par_find_if" -> Pred(x)
    [] o = "par_find_if_not" -> ~Pred(x)
Matches(o) == {i \in 0 .. n - 1 : Sought(o, src0[i])}

\* C1: par_find, par_find_if and par_find_if_not return the smallest
\* position of [first,last) that satisfies the search condition, and last
\* when there is none; without a throwing predicate they never end by an
\* exception.
C1_FindReturnsLeftmost ==
  op \in FindOps =>
    /\ ret.kind = "value" =>
         /\ Matches(op) = {} => ret.val = n
         /\ Matches(op) # {} =>
              /\ ret.val \in Matches(op)
              /\ \A i \in Matches(op) : ret.val <= i
    /\ ~throwing => ret.kind # "threw"

\* a split whose two halves both found a match, and the call has returned
C1_BothHalvesMatch ==
  /\ op \in FindOps
  /\ ret.kind = "value"
  /\ ~IsLeaf(Root)
  /\ F(LeftOf(Root)).val # srcMiddle(Root)
  /\ F(RightOf(Root)).val # n
  /\ ret.val = F(LeftOf(Root)).val

\* what the sequential accumulate / count / count_if gives on the whole range
SeqTotal(o) ==
  CASE o = "par_sum" -> SumSeq(Seg(src0, 0, n))
    [] o = "par_sum_func" -> SumSeq([k \in 1 .. n |-> Func(src0[k - 1])])
    [] o = "par_count" -> Cardinality({i \in 0 .. n - 1 : src0[i] = value})
    [] o = "par_count_if" -> Cardinality({i \in 0 .. n - 1 : Pred(src0[i])})

\* C2: par_sum (with and without a function), par_count and par_count_if
\* return what the sequential accumulate / count / count_if returns on the
\* whole range; without a throwing function they never end by an exception.
C2_ReductionAsSequential ==
  op \in SumOps =>
    /\ ret.kind = "value" => ret.val = SeqTotal(op)
    /\ ~throwing => ret.kind # "threw"

\* a sum over a range that was split, with a non-zero part from each half
C2_SumOfTwoHalves ==
  /\ op = "par_sum"
  /\ ret.kind = "value"
  /\ ~IsLeaf(Root)
  /\ F(LeftOf(Root)).val > 0
  /\ F(RightOf(Root)).val > 0
  /\ ret.val = F(LeftOf(Root)).val + F(RightOf(Root)).val

\* no element of a is less than an element before it
Ordered(a) ==
  \A i \in DOMAIN a : \A j \in DOMAIN a : i < j => ~Lt(a[j], a[i])
Occurrences(a, v) == Cardinality({i \in DOMAIN a : a[i] = v})
SameElements(a, b) ==
  /\ DOMAIN a = DOMAIN b
  /\ \A i \in DOMAIN a : Occurrences(a, a[i]) = Occurrences(b, a[i])

\* C3: with a comparison that does not throw, par_sort (both overloads)
\* returns, and then [first,last) is ordered by the comparison used and is a
\* permutation of what it held at the call.
C3_SortOrdersAndPermutes ==
  (op \in SortOps /\ ~throwing) =>
    /\ ret.kind # "threw"
    /\ ret.kind = "void" => Ordered(src) /\ SameElements(src, src0)

\* a sort with the comparator that was split, merged, changed the range,
\* and returned
C3_SortedByMerge ==
  /\ op = "par_sort_func"
  /\ ~throwing
  /\ ret.kind = "void"
  /\ ~IsLeaf(Root)
  /\ src # src0

\* the elements the sequential copy_if / remove / remove_if retains
Retained(o) ==
  CASE o = "par_copy_if" -> SelectSeq(Seg(src0, 0, n), Pred)
    [] o = "par_remove" -> SelectSeq(Seg(src0, 0, n), NotValue)
    [] o = "par_remove_if" -> SelectSeq(Seg(src0, 0, n), NotPred)
OutNow == IF op = "par_copy_if" THEN dst ELSE src

\* C4: for n >= 1, par_copy_if, par_remove and par_remove_if return the
\* position after the elements the sequential filter retains, and the
\* output up to that position holds exactly those elements in their
\* original order; without a throwing predicate the call returns.
C4_CompactionAsSequential ==
  (op \in ChunkedOps /\ n >= 1) =>
    /\ ret.kind = "value" =>
         /\ ret.val = Len(Retained(op))
         /\ Seg(OutNow, 0, ret.val) = Retained(op)
    /\ ~throwing => ret.kind \in {"running", "value"}

\* chunkSize does not divide n, the last element is retained and an
\* earlier window lost an element, so the last window had to be moved
C4_ShortLastWindowMoved ==
  /\ op \in ChunkedOps
  /\ ret.kind = "value"
  /\ n > chunkSize
  /\ n % chunkSize # 0
  /\ Len(Retained(op)) > 0
  /\ Retained(op)[Len(Retained(op))] = src0[n - 1]
  /\ ret.val < n
  /\ ret.val > 1

\* the calls and chunk tasks that are inside a sequential step
InStep == {nd \in DOMAIN frame : frame[nd].pc \in {"leaf", "merge"}}

\* C5: no cell is written by one step in progress while another step in
\* progress (in another task, in a parent's own branch, in a par_merge or
\* in the stitching loop) reads or writes it.
C5_DisjointCells ==
  /\ \A a \in InStep : \A b \in InStep \ {a} :
       Writes(a) \cap (Reads(b) \cup Writes(b)) = {}
  /\ call.pc = "move" =>
       \A a \in InStep :
         /\ MoveWrites \cap (Reads(a) \cup Writes(a)) = {}
         /\ Writes(a) \cap (MoveReads \cup MoveWrites) = {}

\* the stitching loop is moving a window while the task of a later window
\* is still inside its sequential algorithm
C5_MoveBesideRunningChunk ==
  /\ call.pc = "move"
  /\ MoveWrites # {}
  /\ \E nd \in DOMAIN frame : frame[nd].pc = "leaf" /\ Writes(nd) # {}

\* a call that split, and the future of its left half holds an exception
LeftTaskFailed(nd) ==
  /\ ~IsLeaf(nd)
  /\ F(nd).pc \in {"merge", "done"}
  /\ F(LeftOf(nd)).exc
ChunkTaskFailed ==
  \E k \in 1 .. Len(call.futures) :
    F(call.futures[k]).pc = "done" /\ F(call.futures[k]).exc

\* C6: an exception thrown inside a dispatched left-half or chunk task is
\* re-raised at the join of its future: the call that dispatched the task
\* ends by an exception, and so does the top-level call.
C6_TaskFailureReachesCaller ==
  /\ op \in BinaryOps =>
       \A nd \in DOMAIN frame :
         LeftTaskFailed(nd) =>
           /\ F(nd).pc = "done" /\ F(nd).exc
           /\ ret.kind \in {"running", "threw"}
  /\ op \in ChunkedOps =>
       (ChunkTaskFailed => ret.kind \in {"running", "threw"})

\* C7: in par_sort a failure in the sort of either half aborts the call: it
\* does not run par_merge and does not return normally.
HalfFailed(nd) ==
  /\ ~IsLeaf(nd)
  /\ \/ F(LeftOf(nd)).pc = "done" /\ F(LeftOf(nd)).exc
     \/ F(RightOf(nd)).pc = "done" /\ F(RightOf(nd)).exc
C7_FailedHalfAbortsSort ==
  op \in SortOps =>
    \A nd \in DOMAIN frame :
      HalfFailed(nd) =>
        /\ F(nd).pc # "merge"
        /\ F(nd).pc = "done" => F(nd).exc
        /\ nd = Root => ret.kind # "void"

\* what a call on an empty range is to return
EmptyResult(o) ==
  CASE o \in VoidOps -> [kind |-> "void", val |-> 0]
    [] o \in {"par_all_of", "par_none_of"} \cup EqualOps ->
         [kind |-> "value", val |-> TRUE]
    [] o = "par_any_of" -> [kind |-> "value", val |-> FALSE]
    [] OTHER -> [kind |-> "value", val |-> 0]

\* C8: a call on an empty range returns the identity result of the
\* operation (last, 0, true, or the unchanged start position), touches no
\* cell, and does not take the front of an empty vector of futures.
C8_EmptyRangeIsBaseCase ==
  n = 0 =>
    /\ ret.kind # "running" => ret = EmptyResult(op)
    /\ ~stat.emptyFront
    /\ \A nd \in DOMAIN frame : Reads(nd) \cup Writes(nd) = {}

\* C9 as claimed: with chunkSize >= n no task is dispatched, and the call
\* makes exactly one call of the sequential algorithm, on the calling thread
\* (counted at the return of a call whose behaviour is defined: the chunked
\* operations on an empty range are the subject of C8).
C9_NoTaskWhenChunkCoversRange ==
  chunkSize >= n =>
    /\ stat.async = 0
    /\ (ret.kind # "running" /\ ~stat.emptyFront) =>
         stat.seq = 1 /\ stat.seqOnCaller = 1

\* C9 as amended: with chunkSize >= n a binary operation dispatches no task
\* and makes exactly one call of the sequential algorithm, on the whole
\* range and on the calling thread; a chunked operation dispatches exactly
\* one task when n >= 1, which makes the one call of the sequential
\* algorithm on the whole range, and dispatches no task and makes no call of
\* the sequential algorithm when n = 0.
C9_ThresholdBoundary ==
  chunkSize >= n =>
    /\ DOMAIN frame \subseteq {Root}
    /\ op \in BinaryOps =>
         /\ stat.async = 0
         /\ stat.seq = stat.seqOnCaller
         /\ ret.kind # "running" => stat.seq = 1
    /\ op \in ChunkedOps =>
         /\ stat.seqOnCaller = 0
         /\ stat.async <= 1
         /\ stat.seq <= stat.async
         /\ ret.kind # "running" =>
              /\ stat.async = (IF n >= 1 THEN 1 ELSE 0)
              /\ stat.seq = stat.async

\* a chunked operation with chunkSize >= n >= 1 has returned, its one
\* window filtered by the one task it dispatched
C9_OneChunkTask ==
  /\ op \in ChunkedOps
  /\ chunkSize >= n
  /\ n >= 1
  /\ ret.kind = "value"
  /\ stat.async = 1
  /\ stat.seq = 1

\* the positions std::max_element and std::min_element return: the first
\* position of the greatest element, the first position of the smallest
FirstGreatest ==
  FirstIn({i \in 0 .. n - 1 : \A j \in 0 .. n - 1 : ~Lt(src0[i], src0[j])}, n)
FirstSmallest ==
  FirstIn({i \in 0 .. n - 1 : \A j \in 0 .. n - 1 : ~Lt(src0[j], src0[i])}, n)

\* C10: par_max_element and par_min_element (both overloads) return the
\* position the sequential max_element / min_element returns.
C10_ExtremaAsSequential ==
  ret.kind = "value" =>
    /\ op \in MaxOps => ret.val = FirstGreatest
    /\ op \in MinOps => ret.val = FirstSmallest

\* C11: par_sort is stable: in the range it leaves, two elements with equal
\* keys are in the order they had at the call (the element that came first,
\* the one with the smaller tag, is still first).
C11_SortIsStable ==
  (op \in SortOps /\ ret.kind = "void") =>
    \A i \in DOMAIN src : \A j \in DOMAIN src :
      (i < j /\ Key(src[i]) = Key(src[j])) => Tag(src[i]) < Tag(src[j])

\* C12: the value returned and the contents left in the ranges do not
\* depend on the interleaving or the completion order of the tasks: whatever
\* the schedule, a call ends as the schedule that runs every task to its end
\* at its dispatch ends.  That schedule has one outcome, but for the two
\* calls whose outcome the language leaves open whatever the schedule: a
\* chunked operation on an empty range (C8), and a sort whose comparator
\* throws inside std::sort.
C12_SameResultInEverySchedule ==
  ret.kind # "running" =>
    /\ [ret |-> ret, s |-> src, d |-> dst] \in ResultsInOrder
    /\ (~(op \in ChunkedOps /\ n = 0) /\ ~(op \in SortOps /\ throwing)) =>
         Cardinality(ResultsInOrder) = 1

\* a compaction over three windows has returned: its three tasks could end
\* in any order, and two retained elements were moved
C12_ThreeTasksStitched ==
  /\ op = "par_remove_if"
  /\ n = 3
  /\ chunkSize = 1
  /\ stat.async = 3
  /\ ret = [kind |-> "value", val |-> 2]
  /\ src # src0

\* the top-level call has returned to its caller, with a value or by an
\* exception
HasReturned == ret.kind \in {"value", "void", "threw"}

\* C13: every call eventually returns to its caller.  Every step of a call
\* is a step forward (a range is split into smaller ranges, the dispatch
\* loop advances by chunkSize, every task and every join is taken once), so
\* a call returns under fair scheduling exactly when it cannot stop before
\* its return: a call that has not returned can take a step.
C13_ReturnsOrCanStep == HasReturned \/ ENABLED Next

\* C14: in the binary executor the future of every dispatched task is
\* waited for exactly once, by the call that dispatched it and after that
\* call's own recursion on the right half has returned; when the top-level
\* call returns no future is left that was not waited for.
C14_JoinedOnceAfterRightHalf ==
  op \in BinaryOps =>
    /\ \A t \in DOMAIN stat.joins :
         /\ stat.joins[t].count = 1
         /\ stat.joins[t].afterRight
         /\ F(t).task
    /\ \A nd \in DOMAIN frame :
         /\ (~IsLeaf(nd) /\ frame[nd].pc \in {"merge", "done"}) =>
              JoinsOf(LeftOf(nd)) = 1
         /\ (~IsLeaf(nd) /\ frame[nd].pc = "forked") =>
              JoinsOf(LeftOf(nd)) = 0
    /\ ret.kind # "running" =>
         \A nd \in DOMAIN frame : frame[nd].task => JoinsOf(nd) = 1

\* a call that split twice has returned: the future of the inner left half
\* was waited for by the inner call, that of the outer left half by the
\* top-level call
C14_TwoFuturesJoined ==
  /\ op = "par_sum"
  /\ n = 3
  /\ chunkSize = 1
  /\ ret.kind = "value"
  /\ DOMAIN stat.joins = {<<0, 1>>, <<1, 2>>}

\* the calls and tasks that were started and have not ended
Unfinished == {nd \in DOMAIN frame : frame[nd].pc # "done"}

\* C15: no task is cancelled or abandoned: a call has not ended, normally
\* or by an exception, while the task it dispatched or its own recursion is
\* unfinished, so that when the top-level call has returned (a position of
\* par_find, a result of par_equal, a value, an exception) every call and
\* every task has run to its end, both halves of every split included.
C15_NoTaskAbandoned ==
  /\ \A nd \in DOMAIN frame :
       (~IsLeaf(nd) /\ op \in BinaryOps /\ frame[nd].pc = "done") =>
         /\ F(LeftOf(nd)).pc = "done"
         /\ F(RightOf(nd)).pc = "done"
  /\ call.pc = "done" =>
       \A k \in 1 .. Len(call.futures) : F(call.futures[k]).pc = "done"
  /\ HasReturned => Unfinished = {}

\* par_find_if ended by the exception of its right half, which found no
\* match, after its task had searched the left half to its end and found a
\* match there
C15_LeftHalfRunDespiteFailure ==
  /\ op = "par_find_if"
  /\ ret.kind = "threw"
  /\ ~IsLeaf(Root)
  /\ F(RightOf(Root)).exc
  /\ F(LeftOf(Root)).pc = "done"
  /\ ~F(LeftOf(Root)).exc
  /\ F(LeftOf(Root)).val # srcMiddle(Root)

\* C16: par_sort of a range that is already ordered leaves every position
\* holding the element it held at the call, also among elements with equal
\* keys (so that a second sort changes nothing the first one left).
C16_SortKeepsSortedRange ==
  (op \in SortOps /\ Ordered(src0) /\ ret.kind = "void") => src = src0

\* the element-wise operations that write a range
WritingOps ==
  {"par_transform", "par_fill", "par_replace", "par_replace_if", "par_copy"}
\* the cells of [first,last) and of [dst,dst+n)
RangeCells == Cells("src", 0, n) \cup Cells("dst", 0, n)

\* C17: par_transform, par_fill, par_replace, par_replace_if and par_copy,
\* called with a function that does not throw, return with both ranges as
\* one call of the sequential algorithm on the whole range leaves them (the
\* written range holds the sequential result, the other range is as it
\* was), and no step writes a cell outside [first,last) and [dst,dst+n).
C17_ElementwiseAsSequential ==
  (op \in WritingOps /\ ~throwing) =>
    /\ ret.kind # "threw"
    /\ ret.kind = "void" =>
         \E out \in Leaf(op, src0, dst0, 0, n, 0) :
           src = out.s /\ dst = out.d /\ ~out.exc
    /\ \A nd \in InStep : Writes(nd) \subseteq RangeCells

\* par_transform split an odd range twice and has returned: the three
\* leaves wrote the three cells of the destination
C17_TransformedByThreeLeaves ==
  /\ op = "par_transform"
  /\ ~throwing
  /\ n = 3
  /\ chunkSize = 1
  /\ ret.kind = "void"
  /\ stat.seq = 3
  /\ \A i \in 0 .. n - 1 : dst[i] = Func(src0[i])

\* C18: par_generate with a counter as generator and n > chunkSize fills
\* [first,last) with the values that std::generate gives over the whole
\* range from the same generator: the k-th cell holds the value of the k-th
\* call.
C18_GenerateAsSequential ==
  (op = "par_generate" /\ ~throwing /\ n > chunkSize /\ ret.kind = "void") =>
    \A k \in 0 .. n - 1 : src[k] = Gen(k)

\* C19: par_equal (both overloads) returns true exactly when every element
\* of [first,last) equals, or satisfies the binary predicate with, the
\* element at the same offset from dst.
C19_EqualAsSequential ==
  (op \in EqualOps /\ ret.kind = "value") =>
    ret.val = (\A i \in 0 .. n - 1 :
                 SamePair(src0[i], dst0[i], op = "par_equal_func"))

\* par_equal split, its right half is equal to its destination and its
\* left half is not: false is returned
C19_OnlyLeftHalfDiffers ==
  /\ op = "par_equal"
  /\ ~IsLeaf(Root)
  /\ ret.kind = "value"
  /\ ~ret.val
  /\ F(RightOf(Root)).val
  /\ ~F(LeftOf(Root)).val

\* some element of the range at the call satisfies the predicate
SomeSatisfies == \E i \in 0 .. n - 1 : Pred(src0[i])

\* C20: par_all_of returns true exactly when no element fails the
\* predicate, par_any_of exactly when some element satisfies it, and
\* par_none_of the negation of what par_any_of returns on the same range;
\* on an empty range these are true, false and true.
C20_QuantifiersAsSequential ==
  (op \in WrapperOps /\ ret.kind = "value") =>
    /\ op = "par_all_of" => ret.val = (\A i \in 0 .. n - 1 : Pred(src0[i]))
    /\ op = "par_any_of" => ret.val = SomeSatisfies
    /\ op = "par_none_of" => ret.val = ~SomeSatisfies
    /\ n = 0 => ret.val = (op # "par_any_of")

\* par_none_of split and returned false for a match that only the task of
\* the left half found
C20_NoneOfFalseByLeftHalf ==
  /\ op = "par_none_of"
  /\ ~IsLeaf(Root)
  /\ ret.kind = "value"
  /\ ~ret.val
  /\ F(LeftOf(Root)).val # srcMiddle(Root)
  /\ F(RightOf(Root)).val = n

\* the calls and tasks started on a part of the range of nd, nd apart
Within(nd) ==
  {b \in DOMAIN frame : b # nd /\ nd[1] <= b[1] /\ b[2] <= nd[2]}

\* C21: at every level of par_sort, par_merge over [first,last) runs only
\* after the task sorting [first,mid) and the call sorting [mid,last) have
\* ended: while a merge is running, nothing that was started on a part of
\* its range is unfinished.
C21_MergeAfterBothHalves ==
  op \in SortOps =>
    \A nd \in DOMAIN frame :
      frame[nd].pc = "merge" =>
        /\ F(LeftOf(nd)).pc = "done"
        /\ F(RightOf(nd)).pc = "done"
        /\ \A b \in Within(nd) : frame[b].pc = "done"

\* the merge of a range of four elements is running after the merges of
\* its two halves, each of which was sorted by a task and a call
C21_OuterMergeRunning ==
  /\ op \in SortOps
  /\ n = 4
  /\ chunkSize = 1
  /\ F(Root).pc = "merge"
  /\ Cardinality(Within(Root)) = 6
  /\ src # src0

\* the range handed to par_merge, at the call and now
MergedBefore == Seg(src0, call.first, call.last)
MergedNow == Seg(src, call.first, call.last)

\* C22: handed two adjacent halves, each ordered, of any sizes (an empty
\* half included), par_merge returns with [first,last) ordered and a
\* permutation of what it held, and nothing outside [first,last) changed;
\* so too when the left buffer is used up first and elements of the right
\* half are left where they were.
C22_MergeOrdersAndPermutes ==
  (op \in MergeOps /\ call.pc = "done") =>
    /\ ret.kind = "void"
    /\ IsSorted(src, call.first, call.last)
    /\ SameElements(MergedNow, MergedBefore)
    /\ \A i \in DOMAIN src :
         (i < call.first \/ call.last <= i) => src[i] = src0[i]

\* par_merge has returned from a call in which the left buffer, of two
\* elements, was used up before any of the two elements of the right half
\* was taken: both are greater than every element of the left half
C22_RightRemainderInPlace ==
  /\ op \in MergeOps
  /\ call.pc = "done"
  /\ ret.kind = "void"
  /\ call.middle - call.first = 2
  /\ call.last - call.middle = 2
  /\ \A i \in call.first .. call.middle - 1 : Lt(src0[i], src0[call.middle])
  /\ IsSorted(src, call.first, call.last)

\* C23: in the merge step, when the front elements of the two buffers
\* compare equal the one taken next is the left buffer's, with natural order
\* and with a strict less-than comparator alike: of two elements with equal
\* keys, one of each half, the left half's comes first in the merged range.
C23_TiesTakeLeft ==
  (op \in MergeOps /\ call.pc = "done") =>
    \A i \in call.first .. call.last - 1 :
      \A j \in call.first .. call.last - 1 :
        (i < j /\ Key(src[i]) = Key(src[j])) => Tag(src[i]) < Tag(src[j])

\* the splits of a search for an extremum that have combined, without a
\* failure, two sub-extrema that compare equal
TiedSplits ==
  {nd \in DOMAIN frame :
     /\ frame[nd].pc = "done"
     /\ ~frame[nd].exc
     /\ ~IsLeaf(nd)
     /\ ~F(LeftOf(nd)).exc
     /\ ~F(RightOf(nd)).exc
     /\ Key(src[F(LeftOf(nd)).val]) = Key(src[F(RightOf(nd)).val])}

\* C24 (as stated): at a split whose two sub-extrema compare equal,
\* par_max_element returns the left half's position and par_min_element
\* the right half's, in the natural-order and the comparator overloads.
C24_MaxLeftMinRight ==
  \A nd \in IF op \in MaxOps \cup MinOps THEN TiedSplits ELSE {} :
    frame[nd].val = IF op \in MaxOps THEN F(LeftOf(nd)).val
                    ELSE F(RightOf(nd)).val

\* C24 (amended): at a split whose two sub-extrema compare equal, both
\* overloads of par_max_element and the natural-order par_min_element
\* return the left half's position; the comparator overload of
\* par_min_element returns the right half's.
C24_OnlyComparatorMinRight ==
  \A nd \in IF op \in MaxOps \cup MinOps THEN TiedSplits ELSE {} :
    frame[nd].val = IF op = "par_min_element_func" THEN F(RightOf(nd)).val
                    ELSE F(LeftOf(nd)).val

\* the natural-order par_min_element has returned the position found in
\* the left half, the smallest element being in both halves
C24_NaturalMinTakesLeft ==
  /\ op = "par_min_element"
  /\ Root \in TiedSplits
  /\ ret.kind = "value"
  /\ ret.val = F(LeftOf(Root)).val
  /\ ret.val # F(RightOf(Root)).val

\* C25 (as stated): the stitching step moves no element until every chunk
\* task of the call has been joined: no std::move of the stitching loop
\* runs while a chunk task of the call is unfinished.
C25_MoveAfterEveryTask ==
  call.pc = "move" =>
    \A k \in 1 .. Len(call.futures) : frame[call.futures[k]].pc = "done"

\* C25 (amended): the stitching step moves the elements of a window only
\* after the tasks of that window and of every earlier window have been
\* joined; the tasks of later windows may be unfinished.
C25_MoveAfterTasksUpToWindow ==
  call.pc = "move" =>
    /\ call.it \in 2 .. Len(call.futures)
    /\ \A k \in 1 .. call.it : frame[call.futures[k]].pc = "done"
    /\ call.chunkRange = frame[call.futures[call.it]].val

\* the second of three windows is being moved and the task of the third has
\* not begun its sequential algorithm
C25_MoveBeforeLastTaskBegins ==
  /\ call.pc = "move"
  /\ call.it = 2
  /\ Len(call.futures) = 3
  /\ frame[call.futures[3]].pc = "ready"
  /\ call.chunkRange[1] < call.chunkRange[2]

\* the number of elements the tasks of the first k windows retained
RECURSIVE RetainedUpTo(_)
RetainedUpTo(k) ==
  IF k = 0 THEN 0
  ELSE RetainedUpTo(k - 1)
       + (frame[call.futures[k]].val[2] - frame[call.futures[k]].val[1])

\* C26: in the stitching step, just before the window of the k-th future
\* after the first is moved, the destination cursor is the start of the
\* output plus the number of elements the earlier windows retained, and is
\* not beyond the start of that window; so each element is written at or
\* before its own place, and no write reaches a retained element that is
\* still to be moved, in that window or in a later one.
C26_CursorIsRetainedSoFar ==
  call.pc = "move" =>
    LET first == call.chunkRange[1]
        last == call.chunkRange[2]
    IN  /\ call.dstLast = RetainedUpTo(call.it - 1)
        /\ first = call.futures[call.it][1]
        /\ call.dstLast <= first
        /\ \A i \in 0 .. (last - first) - 1 :
             /\ call.dstLast + i <= first + i
             /\ \A k \in call.it + 1 .. Len(call.futures) :
                  call.dstLast + i < call.futures[k][1]

\* the third window is being moved to the left: the first two windows
\* retained one element between them
C26_ThirdWindowMovedLeft ==
  /\ call.pc = "move"
  /\ call.it = 3
  /\ call.dstLast = 1
  /\ call.chunkRange = <<2, 3>>

\* the window of the k-th task, counted from 0, as C27 gives it
WindowOf(k) ==
  <<k * chunkSize,
    IF (k + 1) * chunkSize < n THEN (k + 1) * chunkSize ELSE n>>

\* C27: for n >= 1 the chunked executor dispatches ceil(n/c) tasks, and
\* the k-th (from 0) owns [k*c, min((k+1)*c, n)): the windows are disjoint
\* and consecutive, cover [0,n), and are c wide but perhaps the last; the
\* sequential algorithm of a task reads and writes inside its window only.
C27_OneTaskPerWindow ==
  (op \in ChunkedOps /\ n >= 1) =>
    /\ \A k \in 1 .. Len(call.futures) : call.futures[k] = WindowOf(k - 1)
    /\ DOMAIN frame = {call.futures[k] : k \in 1 .. Len(call.futures)}
    /\ stat.async = Len(call.futures)
    /\ call.pc # "dispatch" =>
         /\ Len(call.futures) = (n + chunkSize - 1) \div chunkSize
         /\ call.futures[1][1] = 0
         /\ call.futures[Len(call.futures)][2] = n
         /\ \A k \in 1 .. Len(call.futures) - 1 :
              /\ call.futures[k][2] = call.futures[k + 1][1]
              /\ Size(call.futures[k]) = chunkSize
         /\ Size(call.futures[Len(call.futures)]) \in 1 .. chunkSize
    /\ \A nd \in DOMAIN frame :
         Reads(nd) \cup Writes(nd)
           \subseteq Cells("src", nd[1], nd[2]) \cup Cells("dst", nd[1], nd[2])

\* two tasks were dispatched for three elements in windows of two, and the
\* task of the short last window is inside its sequential algorithm
C27_ShortLastWindow ==
  /\ op \in ChunkedOps
  /\ n = 3
  /\ chunkSize = 2
  /\ call.pc # "dispatch"
  /\ call.futures = <<(<<0, 2>>), (<<2, 3>>)>>
  /\ frame[<<2, 3>>].pc = "leaf"
  /\ Writes(<<2, 3>>) # {}

\* C28: in the binary executor a call on more than chunkSize elements
\* splits at floor(n/2): the left half, of floor(n/2) elements, is given to
\* an asynchronous task and the right half, of ceil(n/2) elements, is a
\* recursive call on the thread of the call; a call on chunkSize elements
\* or fewer runs the sequential algorithm, and neither splits nor
\* dispatches.
C28_SplitAtFloorOfHalf ==
  op \in BinaryOps =>
    /\ \A nd \in DOMAIN frame :
         LET mid == nd[1] + Size(nd) \div 2
             left == <<nd[1], mid>>
             right == <<mid, nd[2]>>
         IN  IF Size(nd) > chunkSize /\ frame[nd].pc # "ready"
               THEN /\ frame[nd].pc \in {"forked", "merge", "done"}
                    /\ left \in DOMAIN frame
                    /\ right \in DOMAIN frame
                    /\ Size(left) = Size(nd) \div 2
                    /\ Size(right) = (Size(nd) + 1) \div 2
                    /\ frame[left].task
                    /\ ~frame[left].onCaller
                    /\ ~frame[right].task
                    /\ frame[right].onCaller = frame[nd].onCaller
                    /\ \A b \in DOMAIN frame :
                         (nd[1] <= b[1] /\ b[2] <= nd[2] /\ b # nd) =>
                           (b[2] <= mid \/ mid <= b[1])
               ELSE /\ frame[nd].pc \in {"ready", "leaf", "done"}
                    /\ \A b \in DOMAIN frame :
                         (nd[1] <= b[1] /\ b[2] <= nd[2]) => b = nd
    /\ stat.async = Cardinality({nd \in DOMAIN frame : frame[nd].task})

\* a call on three elements gave one to a task and kept two, and the call
\* on the two has split in its turn
C28_OddRangeSplit ==
  /\ op \in BinaryOps
  /\ n = 3
  /\ chunkSize = 1
  /\ F(<<0, 1>>).task
  /\ F(<<0, 1>>).pc = "leaf"
  /\ F(<<1, 3>>).pc = "forked"
  /\ F(<<1, 2>>).task
  /\ ~F(<<2, 3>>).task

\* the cells of the second range among a set of cells
InSecondRange(cells, lo, hi) == cells \cap Cells("dst", lo, hi)

\* C29: in par_transform, par_copy and par_equal, the call or task that
\* handles the offsets [a,b) of the source reads or writes the second range
\* at the offsets [a,b) from dst, and at no other.
C29_SecondRangeAtSameOffsets ==
  op \in {"par_transform", "par_copy"} \cup EqualOps =>
    \A nd \in DOMAIN frame :
      /\ frame[nd].dpos = nd[1]
      /\ frame[nd].pc = "leaf" =>
           /\ InSecondRange(Reads(nd) \cup Writes(nd), 0, n)
                = Cells("dst", nd[1], nd[2])
           /\ InSecondRange(Reads(nd) \cup Writes(nd), nd[1], nd[2])
                = Cells("dst", nd[1], nd[2])

\* the last of three elements is handled by the right half of a right half:
\* its sequential algorithm is at work on the third cell of the second range
C29_ThirdCellBySecondSplit ==
  /\ op \in {"par_transform", "par_copy"} \cup EqualOps
  /\ n = 3
  /\ chunkSize = 1
  /\ F(<<2, 3>>).pc = "leaf"
  /\ F(<<2, 3>>).dpos = 2
  /\ InSecondRange(Reads(<<2, 3>>) \cup Writes(<<2, 3>>), 0, n)
       = Cells("dst", 2, 3)

\* the number of splits the call on nd is nested in
DepthOf(nd) ==
  Cardinality({a \in DOMAIN frame :
                 a # nd /\ a[1] <= nd[1] /\ nd[2] <= a[2]})
\* the least d >= from with chunkSize * 2^d >= n
RECURSIVE LeastDepth(_)
LeastDepth(from) ==
  IF chunkSize * 2 ^ from >= n THEN from ELSE LeastDepth(from + 1)

\* C30: the depth of the binary recursion, the number of nested splits on
\* the deepest path, is the least d >= 0 with chunkSize * 2^d >= n, which
\* is ceil(log2(n / chunkSize)) for n > chunkSize and 0 for n <= chunkSize:
\* no call is nested deeper, and when the operation returns some call was
\* nested that deep.
C30_DepthIsCeilLog2 ==
  op \in BinaryOps =>
    /\ \A nd \in DOMAIN frame : DepthOf(nd) <= LeastDepth(0)
    /\ ret.kind # "running" =>
         \E nd \in DOMAIN frame : DepthOf(nd) = LeastDepth(0)

\* par_sum of five elements with chunkSize 1 has returned after three
\* nested splits: 5, 3, 2, 1
C30_FiveElementsThreeDeep ==
  /\ op = "par_sum"
  /\ n = 5
  /\ chunkSize = 1
  /\ ret.kind = "value"
  /\ \E nd \in DOMAIN frame : DepthOf(nd) = 3
  /\ LeastDepth(0) = 3

\* the calls that ran, run or will run the sequential algorithm
Leaves == {nd \in DOMAIN frame : Size(nd) <= chunkSize}

\* C31: for n > chunkSize the ranges of the leaves of the binary recursion
\* are disjoint, and once the call has returned every offset of [0,n) lies
\* in exactly one of them; every leaf has between floor((chunkSize+1)/2)
\* and chunkSize elements, so none is empty, and the combine of the searches
\* for an extremum is given the position of an element of each half, never
\* the end of an empty half.
C31_LeavesPartitionTheRange ==
  (op \in BinaryOps /\ n > chunkSize) =>
    /\ \A nd \in Leaves :
         /\ (chunkSize + 1) \div 2 <= Size(nd)
         /\ Size(nd) <= chunkSize
         /\ \A b \in Leaves : b = nd \/ b[2] <= nd[1] \/ nd[2] <= b[1]
    /\ ret.kind # "running" =>
         \A i \in 0 .. n - 1 :
           \E nd \in Leaves : nd[1] <= i /\ i < nd[2]
    /\ op \in MaxOps \cup MinOps =>
         \A nd \in DOMAIN frame :
           (frame[nd].pc = "done" /\ ~frame[nd].exc) =>
             (nd[1] <= frame[nd].val /\ frame[nd].val < nd[2])

\* par_max_element on six elements with chunkSize 2 has returned: the
\* leaves are 1 + 2 + 1 + 2 elements long
C31_SixElementsFourLeaves ==
  /\ op = "par_max_element"
  /\ n = 6
  /\ chunkSize = 2
  /\ ret.kind = "value"
  /\ Leaves = {<<0, 1>>, <<1, 3>>, <<3, 4>>, <<4, 6>>}

\* C32: with chunkSize 0 and n >= 1 a call of the binary executor does not
\* return: no call on a range of one element or more ends, for a call on
\* one element splits into a task on an empty left half and a call on the
\* same element, which splits in turn, one more task at every step.
C32_ZeroThresholdNeverReturns ==
  (op \in BinaryOps /\ chunkSize = 0 /\ n >= 1) =>
    /\ ret.kind = "running"
    /\ \A nd \in DOMAIN frame :
         /\ Size(nd) >= 1 => frame[nd].pc \in {"ready", "forked"}
         /\ (Size(nd) = 1 /\ frame[nd].pc = "forked") =>
              LET left == <<nd[1], nd[1], Level(nd) + 1>>
                  right == <<nd[1], nd[2], Level(nd) + 1>>
              IN  /\ left \in DOMAIN frame
                  /\ frame[left].task
                  /\ right \in DOMAIN frame
                  /\ ~frame[right].task
    /\ stat.async = Cardinality({nd \in DOMAIN frame : frame[nd].pc = "forked"})

\* a call on one element with chunkSize 0 is nested in MaxNest + 1 calls on
\* that element, each of which dispatched a task on an empty range
C32_NestedToTheBound ==
  /\ chunkSize = 0
  /\ n = 1
  /\ <<0, 1, MaxNest + 1>> \in DOMAIN frame
  /\ stat.async = MaxNest + 1
  /\ \A k \in 1 .. MaxNest + 1 : F(<<0, 0, k>>).task
  /\ ret.kind = "running"

\* C33: par_copy_if (n >= 1) does not modify the source; a chunk task
\* writes the destination inside its own window only, and the stitching
\* step below the cursor only, all of it at the offsets [0,n) from dst.  A
\* cell of the destination at or after the position returned can so hold an
\* element copied there: the destination needs n cells.
C33_CopyIfWritesItsWindows ==
  (op = "par_copy_if" /\ n >= 1) =>
    /\ src = src0
    /\ DOMAIN dst = 0 .. n - 1
    /\ \A nd \in DOMAIN frame :
         Writes(nd) \subseteq Cells("dst", nd[1], nd[2])
    /\ MoveWrites \subseteq Cells("dst", 0, n)
    /\ \A i \in 0 .. n - 1 :
         dst[i] # dst0[i] =>
           \/ \E nd \in DOMAIN frame :
                frame[nd].pc = "done" /\ nd[1] <= i /\ i < nd[2]
           \/ i < call.dstLast

\* par_copy_if has returned the position after the one element retained,
\* and the cell after that position holds the element as its task copied
\* it, in the second window
C33_CopiedBeyondReturnedCount ==
  /\ op = "par_copy_if"
  /\ n = 2
  /\ chunkSize = 1
  /\ ret.kind = "value"
  /\ ret.val = 1
  /\ dst[1] # dst0[1]
  /\ dst[1] = src0[1]

=============================================================================
